---- MODULE Spec2Model ----
(***************************************************************************)
(* Model of the /parse-text handler of src/main.py: synonym normalization  *)
(* (normalize_with_synonyms) followed by player-number extraction and      *)
(* longest-phrase event matching (parse_command).  A Python str is the     *)
(* tuple of its characters; None is the empty tuple and a present optional *)
(* value v is the one-element tuple <<v>>.  origin and rewrote are history *)
(* variables: which canonical introduced each character of cleaned, and    *)
(* whether a rule has matched text introduced for another canonical.       *)
(***************************************************************************)
EXTENDS Integers, Sequences, FiniteSets, TLC

VARIABLES pc, text, setNumber, cleaned, idx, origin, rewrote, player, matched, result

vars == <<pc, text, setNumber, cleaned, idx, origin, rewrote, player, matched, result>>

None == <<>>
Some(v) == <<v>>

(* ------------------------------ tables -------------------------------- *)

EVENT_MAP ==
  << [phrase |-> "serve", event |-> "SERVE", awarded |-> <<>>],
     [phrase |-> "ace", event |-> "ACE", awarded |-> <<"us">>],
     [phrase |-> "serve error", event |-> "SERVE_ERROR", awarded |-> <<"them">>],
     [phrase |-> "hit attempt", event |-> "HIT_ATTEMPT", awarded |-> <<>>],
     [phrase |-> "kill", event |-> "KILL", awarded |-> <<"us">>],
     [phrase |-> "hit error", event |-> "HIT_ERROR", awarded |-> <<"them">>],
     [phrase |-> "good pass", event |-> "GOOD_PASS", awarded |-> <<>>],
     [phrase |-> "bad pass", event |-> "BAD_PASS", awarded |-> <<>>],
     [phrase |-> "pass error", event |-> "PASS_ERROR", awarded |-> <<"them">>],
     [phrase |-> "block", event |-> "BLOCK", awarded |-> <<"us">>],
     [phrase |-> "block assist", event |-> "BLOCK_ASSIST", awarded |-> <<>>],
     [phrase |-> "block error", event |-> "BLOCK_ERROR", awarded |-> <<"them">>],
     [phrase |-> "assist", event |-> "ASSIST", awarded |-> <<>>],
     [phrase |-> "ball handling error", event |-> "BALL_HANDLING_ERROR", awarded |-> <<"them">>],
     [phrase |-> "dig", event |-> "DIG", awarded |-> <<>>],
     [phrase |-> "dig error", event |-> "DIG_ERROR", awarded |-> <<"them">>],
     [phrase |-> "point us", event |-> "POINT_US", awarded |-> <<"us">>],
     [phrase |-> "point them", event |-> "POINT_THEM", awarded |-> <<"them">>] >>

SYNONYM_RULES ==
  [v1 |->
  << [canonical |-> "serve",
      variants |-> << "served", "served the ball" >>],
     [canonical |-> "ace",
      variants |-> << "got an ace", "aced them" >>],
     [canonical |-> "serve error",
      variants |-> << "service error", "foot fault", "served in the net", "served out", "served long", "serve in the net" >>],
     [canonical |-> "hit attempt",
      variants |-> << "hit attempt", "attack", "swing", "spike" >>],
     [canonical |-> "kill",
      variants |-> << "got a kill", "gets a kill", "killed it" >>],
     [canonical |-> "hit error",
      variants |-> << "hit error", "attack error", "missed hit", "hit in the net", "hit out", "tip error", "tipped it out", "tipped the ball out", "swung out" >>],
     [canonical |-> "good pass",
      variants |-> << "nice pass", "pass", "solid pass", "dime", "dime pass", "perfect pass" >>],
     [canonical |-> "bad pass",
      variants |-> << "bad pass", "poor pass", "weak pass" >>],
     [canonical |-> "pass error",
      variants |-> << "got aced", "missed pass", "passing error" >>],
     [canonical |-> "block",
      variants |-> << "got a block", "blocked it", "blocked the ball", "solo block" >>],
     [canonical |-> "block assist",
      variants |-> << "got a block assist" >>],
     [canonical |-> "block error",
      variants |-> << "missed block", "hit the net", "net violation", "net", "block in the net", "block out" >>],
     [canonical |-> "assist",
      variants |-> << "got an assist" >>],
     [canonical |-> "ball handling error",
      variants |-> << "double contact", "lift", "carry", "illegal contact" >>],
     [canonical |-> "dig",
      variants |-> << "got a dig", "dug it", "dug the ball" >>],
     [canonical |-> "dig error",
      variants |-> << "missed dig", "missed the dig" >>],
     [canonical |-> "point us",
      variants |-> << "our point", "we got a point", "point for us", "point to us", "point us", "point for our team" >>],
     [canonical |-> "point them",
      variants |-> << "their point", "they got a point", "point for them" >>] >> ]

SYNONYM_VERSION == "v1"

(* --------------------------- string helpers --------------------------- *)

\* a Python str as the tuple of its characters
Str(s) == [i \in 1..Len(s) |-> SubSeq(s, i, i)]

Range(s) == {s[i] : i \in DOMAIN s}

UpperLetters == Str("ABCDEFGHIJKLMNOPQRSTUVWXYZ")
LowerLetters == Str("abcdefghijklmnopqrstuvwxyz")
Digits == Str("0123456789")
WhitespaceChars == {" ", "\t"}
DigitChars == Range(Digits)
WordChars == Range(UpperLetters) \cup Range(LowerLetters) \cup DigitChars \cup {"_"}

IndexOf(c, s) == CHOOSE k \in 1..Len(s) : s[k] = c

\* str.lower()
LowerChar(c) == IF c \in Range(UpperLetters) THEN LowerLetters[IndexOf(c, UpperLetters)] ELSE c

lower(s) == [i \in 1..Len(s) |-> LowerChar(s[i])]

RECURSIVE lstrip(_)
lstrip(s) == IF s # <<>> /\ s[1] \in WhitespaceChars THEN lstrip(Tail(s)) ELSE s

RECURSIVE rstrip(_)
rstrip(s) ==
  IF s # <<>> /\ s[Len(s)] \in WhitespaceChars THEN rstrip(SubSeq(s, 1, Len(s) - 1)) ELSE s

\* str.strip()
strip(s) == rstrip(lstrip(s))

\* s[i] is a regex word character (\w); positions outside the string are not
IsWordAt(s, i) == i >= 1 /\ i <= Len(s) /\ s[i] \in WordChars

\* regex \b between positions i and i+1 of s (i = 0: before the first character)
WordBoundary(s, i) == IsWordAt(s, i) # IsWordAt(s, i + 1)

\* phrase occurs in s at position i
OccursAt(s, phrase, i) ==
  /\ i + Len(phrase) - 1 <= Len(s)
  /\ \A k \in 1..Len(phrase) : s[i + k - 1] = phrase[k]

\* Python's `phrase in s`
Contains(s, phrase) == \E i \in 1..(Len(s) - Len(phrase) + 1) : OccursAt(s, phrase, i)

\* the pattern \b<variant>\b matches s at position i
MatchAt(s, variant, i) ==
  /\ OccursAt(s, variant, i)
  /\ WordBoundary(s, i - 1)
  /\ WordBoundary(s, i + Len(variant) - 1)

\* start positions of the leftmost non-overlapping matches of \b<variant>\b from i on
RECURSIVE FindAll(_, _, _)
FindAll(s, variant, i) ==
  IF i + Len(variant) - 1 > Len(s) THEN <<>>
  ELSE IF MatchAt(s, variant, i) THEN <<i>> \o FindAll(s, variant, i + Len(variant))
  ELSE FindAll(s, variant, i + 1)

\* s from position i on, with the matches at `at` (each of length n) replaced by repl
RECURSIVE Splice(_, _, _, _, _)
Splice(s, at, n, repl, i) ==
  IF at = <<>> THEN SubSeq(s, i, Len(s))
  ELSE SubSeq(s, i, Head(at) - 1) \o repl \o Splice(s, Tail(at), n, repl, Head(at) + n)

\* re.sub(rf"\b{re.escape(variant)}\b", canonical, s)
ReSub(variant, canonical, s) ==
  Splice(s, FindAll(s, variant, 1), Len(variant), canonical, 1)

(* ------------------------ normalize_with_synonyms ---------------------- *)

rules == IF SYNONYM_VERSION \in DOMAIN SYNONYM_RULES THEN SYNONYM_RULES[SYNONYM_VERSION] ELSE <<>>

\* the (variant, canonical) pairs in table iteration order, from canonical k on;
\* cid is the canonical's position in the table (bookkeeping for `origin`)
RECURSIVE Flatten(_)
Flatten(k) ==
  IF k > Len(rules) THEN <<>>
  ELSE [j \in 1..Len(rules[k].variants) |->
          [variant |-> Str(rules[k].variants[j]), canonical |-> Str(rules[k].canonical), cid |-> k]]
       \o Flatten(k + 1)

replacements == Flatten(1)

\* indices of `keys` in the order of Python's stable sorted(..., reverse=True):
\* larger keys first, equal keys in their original order
RECURSIVE IndicesFrom(_, _)
IndicesFrom(keys, n) ==
  IF n < 0 THEN <<>>
  ELSE SelectSeq([i \in 1..Len(keys) |-> i], LAMBDA i : keys[i] = n) \o IndicesFrom(keys, n - 1)

MaxOf(S) == IF S = {} THEN 0 ELSE CHOOSE m \in S : \A x \in S : x <= m

SortedIndicesDesc(keys) == IndicesFrom(keys, MaxOf(Range(keys)))

replacementOrder == SortedIndicesDesc([i \in 1..Len(replacements) |-> Len(replacements[i].variant)])

sortedReplacements == [k \in 1..Len(replacementOrder) |-> replacements[replacementOrder[k]]]

(* ------------------------------ parse_command -------------------------- *)

phraseOrder == SortedIndicesDesc([i \in 1..Len(EVENT_MAP) |-> Len(EVENT_MAP[i].phrase)])

\* faulty variant: the phrases in table order, not sorted by length
sortedPhrases_tableOrder == [k \in 1..Len(EVENT_MAP) |-> Str(EVENT_MAP[k].phrase)]

sortedPhrases == [k \in 1..Len(phraseOrder) |-> Str(EVENT_MAP[phraseOrder[k]].phrase)]

StandaloneCommands == {Str("point us"), Str("point them")}

\* EVENT_MAP[phrase]
Lookup(phrase) == EVENT_MAP[CHOOSE i \in 1..Len(EVENT_MAP) : Str(EVENT_MAP[i].phrase) = phrase]

DigitValue(c) == IndexOf(c, Digits) - 1

RECURSIVE int(_)
int(s) == IF s = <<>> THEN 0 ELSE 10 * int(SubSeq(s, 1, Len(s) - 1)) + DigitValue(s[Len(s)])

IsDigitAt(s, i) == i >= 1 /\ i <= Len(s) /\ s[i] \in DigitChars

\* faulty variant: (\d{1,2}) without the word boundaries
NumberAt_noBoundary(s, i) ==
  IF ~IsDigitAt(s, i) THEN <<>>
  ELSE IF IsDigitAt(s, i + 1) THEN SubSeq(s, i, i + 1)
  ELSE SubSeq(s, i, i)

\* the group matched by \b(\d{1,2})\b at position i of s, <<>> when it does not match:
\* two digits are tried first, then one
NumberAt(s, i) ==
  IF ~(WordBoundary(s, i - 1) /\ IsDigitAt(s, i)) THEN <<>>
  ELSE IF IsDigitAt(s, i + 1) /\ WordBoundary(s, i + 1) THEN SubSeq(s, i, i + 1)
  ELSE IF WordBoundary(s, i) THEN SubSeq(s, i, i)
  ELSE <<>>

\* re.search(r"\b(\d{1,2})\b", s): the leftmost match, then int(m.group(1))
ExtractPlayer(s) ==
  LET hits == {i \in 1..Len(s) : NumberAt(s, i) # <<>>}
  IN  IF hits = {} THEN None
      ELSE Some(int(NumberAt(s, CHOOSE i \in hits : \A j \in hits : i <= j)))

\* faulty variant: the standalone commands are not excluded
MatchPhrase_withCommands(s) ==
  LET hits == {k \in 1..Len(sortedPhrases) : Contains(s, sortedPhrases[k])}
  IN  IF hits = {} THEN None
      ELSE Some(sortedPhrases[CHOOSE k \in hits : \A j \in hits : k <= j])

\* the first phrase, longest first, that occurs in s and is not a standalone command
MatchPhrase(s) ==
  LET hits == {k \in 1..Len(sortedPhrases) :
                  Contains(s, sortedPhrases[k]) /\ sortedPhrases[k] \notin StandaloneCommands}
  IN  IF hits = {} THEN None
      ELSE Some(sortedPhrases[CHOOSE k \in hits : \A j \in hits : k <= j])

(* ------------------------------- requests ------------------------------ *)

MaxSetNumber == 1
MaxExtra == 1

Canonicals == {EVENT_MAP[i].phrase : i \in 1..Len(EVENT_MAP)}
Synonyms == UNION {Range(rules[k].variants) : k \in 1..Len(rules)}
Fillers ==
  {"", " ", "did something", "digging", " Kill ", "\tPOINT US ", "Our Point",
   "8 missed block assist", "dig error hit error", "pass 9 10"}
Phrases == Canonicals \cup Synonyms \cup Fillers
Extras == {"7", "12", "123", "7a"}

RECURSIVE Join(_)
Join(ws) ==
  IF ws = <<>> THEN "" ELSE IF Len(ws) = 1 THEN ws[1] ELSE ws[1] \o " " \o Join(Tail(ws))

\* the sequences over S of length n
RECURSIVE SeqsOfLen(_, _)
SeqsOfLen(S, n) ==
  IF n = 0 THEN {<<>>} ELSE {<<x>> \o w : x \in S, w \in SeqsOfLen(S, n - 1)}

\* the ways to put up to MaxExtra number-like tokens before and after a phrase
Surroundings ==
  UNION {SeqsOfLen(Extras, a) \X SeqsOfLen(Extras, b) :
           a \in 0..MaxExtra, b \in 0..MaxExtra}

Texts ==
  {Str(Join(w[1] \o <<p>> \o w[2])) :
     p \in Phrases, w \in {v \in Surroundings : Len(v[1]) + Len(v[2]) <= MaxExtra}}

(* ------------------------------- actions ------------------------------- *)

NoResult == [event |-> "none"]

Init ==
  /\ pc = "idle"
  /\ text = <<>>
  /\ setNumber = 0
  /\ cleaned = <<>>
  /\ idx = 0
  /\ origin = <<>>
  /\ rewrote = FALSE
  /\ player = None
  /\ matched = None
  /\ result = NoResult

\* POST /parse-text: parse_text calls parse_command(request.text, request.setNumber),
\* which calls normalize_with_synonyms(text) up to the start of its loop
parse_text(t, n) ==
  /\ pc' = "normalize"
  /\ text' = t
  /\ setNumber' = n
  /\ cleaned' = lower(strip(t))
  /\ idx' = 1
  /\ origin' = [i \in 1..Len(lower(strip(t))) |-> 0]
  /\ rewrote' = FALSE
  /\ UNCHANGED <<player, matched, result>>

Request ==
  /\ pc = "idle"
  /\ \E t \in Texts, n \in 0..MaxSetNumber : parse_text(t, n)

\* a match of rule r at position i of st.cleaned covers text introduced for another canonical
Rewrites(st, r, i) ==
  \E j \in i..(i + Len(r.variant) - 1) : st.origin[j] # 0 /\ st.origin[j] # r.cid

\* one iteration of the loop over the sorted replacements: cleaned = re.sub(...);
\* origin records, per character, the canonical whose replacement introduced it
Replace(st, r) ==
  LET at == FindAll(st.cleaned, r.variant, 1)
  IN  IF at = <<>> THEN st
      ELSE [cleaned |-> ReSub(r.variant, r.canonical, st.cleaned),
            origin |-> Splice(st.origin, at, Len(r.variant),
                              [j \in 1..Len(r.canonical) |-> r.cid], 1),
            rewrote |-> (st.rewrote \/ \E k \in 1..Len(at) : Rewrites(st, r, at[k]))]

ApplyRule ==
  /\ pc = "normalize"
  /\ idx <= Len(sortedReplacements)
  /\ LET st == Replace([cleaned |-> cleaned, origin |-> origin, rewrote |-> rewrote],
                       sortedReplacements[idx])
     IN  /\ cleaned' = st.cleaned
         /\ origin' = st.origin
         /\ rewrote' = st.rewrote
  /\ idx' = idx + 1
  /\ UNCHANGED <<pc, text, setNumber, player, matched, result>>

IsStandalone == cleaned \in StandaloneCommands

StandaloneResult ==
  [setNumber |-> setNumber, playerNumber |-> None, event |-> Lookup(cleaned).event,
   pointAwardedTo |-> Lookup(cleaned).awarded, needsReview |-> FALSE, rawText |-> text]

\* normalize_with_synonyms has returned; the simple commands return at once
ReturnStandalone ==
  /\ pc = "normalize"
  /\ idx > Len(sortedReplacements)
  /\ IsStandalone
  /\ result' = StandaloneResult
  /\ pc' = "done"
  /\ UNCHANGED <<text, setNumber, cleaned, idx, origin, rewrote, player, matched>>

ExtractAndMatch ==
  /\ pc = "normalize"
  /\ idx > Len(sortedReplacements)
  /\ ~IsStandalone
  /\ player' = ExtractPlayer(cleaned)
  /\ matched' = MatchPhrase(cleaned)
  /\ pc' = "assemble"
  /\ UNCHANGED <<text, setNumber, cleaned, idx, origin, rewrote, result>>

\* faulty variant: a missing player number is not checked
IsUnknown_phraseOnly == matched = None

IsUnknown == player = None \/ matched = None

\* faulty variant: the normalized text is returned as rawText
UnknownResult_normalizedText ==
  [setNumber |-> setNumber, playerNumber |-> player, event |-> "UNKNOWN",
   pointAwardedTo |-> None, needsReview |-> TRUE, rawText |-> cleaned]

UnknownResult ==
  [setNumber |-> setNumber, playerNumber |-> player, event |-> "UNKNOWN",
   pointAwardedTo |-> None, needsReview |-> TRUE, rawText |-> text]

\* faulty variant: the attribution is taken from the first rule of the table
MatchedResult_firstRule ==
  [setNumber |-> setNumber, playerNumber |-> player, event |-> Lookup(matched[1]).event,
   pointAwardedTo |-> EVENT_MAP[1].awarded, needsReview |-> FALSE, rawText |-> text]

MatchedResult ==
  [setNumber |-> setNumber, playerNumber |-> player, event |-> Lookup(matched[1]).event,
   pointAwardedTo |-> Lookup(matched[1]).awarded, needsReview |-> FALSE, rawText |-> text]

ReturnUnknown ==
  /\ pc = "assemble"
  /\ IsUnknown
  /\ result' = UnknownResult
  /\ pc' = "done"
  /\ UNCHANGED <<text, setNumber, cleaned, idx, origin, rewrote, player, matched>>

ReturnMatched ==
  /\ pc = "assemble"
  /\ ~IsUnknown
  /\ result' = MatchedResult
  /\ pc' = "done"
  /\ UNCHANGED <<text, setNumber, cleaned, idx, origin, rewrote, player, matched>>

\* the record is serialized as the response; the call's locals are gone
Respond ==
  /\ pc = "done"
  /\ pc' = "idle"
  /\ text' = <<>>
  /\ setNumber' = 0
  /\ cleaned' = <<>>
  /\ idx' = 0
  /\ origin' = <<>>
  /\ rewrote' = FALSE
  /\ player' = None
  /\ matched' = None
  /\ result' = NoResult

Next ==
  \/ Request
  \/ ApplyRule
  \/ ReturnStandalone
  \/ ExtractAndMatch
  \/ ReturnUnknown
  \/ ReturnMatched
  \/ Respond

Spec == Init /\ [][Next]_vars

(* ------------------------------ properties ----------------------------- *)

Returned == pc = "done"

\* the canonical phrases that are not standalone commands, as character tuples
EventPhrases == {Str(p) : p \in Canonicals} \ StandaloneCommands

TableKeys == {Str(p) : p \in Canonicals}

Kinds == {EVENT_MAP[i].event : i \in 1..Len(EVENT_MAP)}

AwardOf(kind) == EVENT_MAP[CHOOSE i \in 1..Len(EVENT_MAP) : EVENT_MAP[i].event = kind].awarded

HasPhrase(s) == \E p \in EventPhrases : Contains(s, p)

\* the whole-word tokens of s made of one or two decimal digits, by start position
NumberTokenStarts(s) ==
  {i \in 1..Len(s) :
     /\ ~IsWordAt(s, i - 1)
     /\ \E n \in 1..2 : /\ \A k \in i..(i + n - 1) : IsDigitAt(s, k)
                        /\ ~IsWordAt(s, i + n)}

TokenAt(s, i) ==
  SubSeq(s, i, CHOOSE j \in i..Len(s) : (\A k \in i..j : IsWordAt(s, k)) /\ ~IsWordAt(s, j + 1))

\* the decimal numerals of 0..99, with and without a leading zero
Numeral(n) == {<<Digits[n + 1]>> : x \in {n} \cap 0..9} \cup {<<Digits[(n \div 10) + 1], Digits[(n % 10) + 1]>>}

FirstNumber(s) ==
  LET starts == NumberTokenStarts(s)
  IN  IF starts = {} THEN None
      ELSE LET first == CHOOSE i \in starts : \A j \in starts : i <= j
           IN  Some(CHOOSE n \in 0..99 : TokenAt(s, first) \in Numeral(n))

\* C1: a canonical phrase P other than "point us"/"point them", followed by " 7", parses to
\* P's event kind and attribution with playerNumber 7 and needsReview false.
C1_CanonicalThenNumber ==
  \A i \in 1..Len(EVENT_MAP) :
    (/\ Returned
     /\ Str(EVENT_MAP[i].phrase) \in EventPhrases
     /\ text = Str(EVENT_MAP[i].phrase \o " 7"))
    => /\ result.event = EVENT_MAP[i].event
       /\ result.pointAwardedTo = EVENT_MAP[i].awarded
       /\ result.playerNumber = Some(7)
       /\ result.needsReview = FALSE

\* C2: a player number followed by a synonym S of a canonical phrase C other than
\* "point us"/"point them" parses to C's event kind with that player number and
\* needsReview false (so "10 attack error" is HIT_ERROR, never HIT_ATTEMPT).
C2_NumberThenSynonym ==
  \A k \in 1..Len(rules) : \A j \in 1..Len(rules[k].variants) : \A n \in {"7", "12"} :
    (/\ Returned
     /\ Str(rules[k].canonical) \in EventPhrases
     /\ text = Str(n \o " " \o rules[k].variants[j]))
    => /\ result.event = Lookup(Str(rules[k].canonical)).event
       /\ result.playerNumber = Some(int(Str(n)))
       /\ result.needsReview = FALSE

\* C3: needsReview is true exactly when the normalized text is not a standalone command
\* and it holds no event phrase or no 1-2 digit player number; the result is then UNKNOWN
\* with no attribution and with the extracted player number.
C3_NeedsReview ==
  Returned =>
    /\ result.needsReview <=>
         (cleaned \notin StandaloneCommands
            /\ (~HasPhrase(cleaned) \/ NumberTokenStarts(cleaned) = {}))
    /\ result.needsReview =>
         /\ result.event = "UNKNOWN"
         /\ result.pointAwardedTo = None
         /\ result.playerNumber = player

\* a number without a phrase is returned for review with its number
C3_Witness ==
  /\ Returned
  /\ result.needsReview
  /\ result.playerNumber = Some(12)
  /\ ~HasPhrase(cleaned)

\* C4: the event is POINT_US (POINT_THEM) exactly when the normalized text equals
\* "point us" ("point them"); then there is no player number, the attribution is "us"
\* ("them"), needsReview is false, and neither a number nor a phrase was looked for.
C4_StandaloneExact ==
  Returned =>
    /\ result.event = "POINT_US" <=> cleaned = Str("point us")
    /\ result.event = "POINT_THEM" <=> cleaned = Str("point them")
    /\ cleaned \in StandaloneCommands =>
         /\ result.playerNumber = None
         /\ result.pointAwardedTo = (IF cleaned = Str("point us") THEN Some("us") ELSE Some("them"))
         /\ result.needsReview = FALSE
         /\ player = None
         /\ matched = None

\* "12 our point": the command is only part of the normalized text
C4_Witness ==
  /\ Returned
  /\ Contains(cleaned, Str("point us"))
  /\ cleaned # Str("point us")
  /\ player # None
  /\ result.event = "UNKNOWN"

\* C5: no rule rewrites text that an earlier replacement introduced for another canonical.
C5_NoRewriteOfCanonical == rewrote = FALSE

\* the loop over reps from k on; nothing matches in an empty string
RECURSIVE ApplyFrom(_, _, _)
ApplyFrom(reps, k, st) ==
  IF k > Len(reps) \/ st.cleaned = <<>> THEN st
  ELSE ApplyFrom(reps, k + 1, Replace(st, reps[k]))

\* normalize_with_synonyms with the rules applied in the order reps
NormalizeWith(reps, t) ==
  ApplyFrom(reps, 1, [cleaned |-> lower(strip(t)),
                      origin |-> [i \in 1..Len(lower(strip(t))) |-> 0],
                      rewrote |-> FALSE]).cleaned

\* the sorted replacements had the table been iterated backwards: the same rules,
\* longest first, with the rules of equal length in the opposite order
reversedReplacements ==
  LET n == Len(replacements)
      rev == [i \in 1..n |-> replacements[n + 1 - i]]
      order == SortedIndicesDesc([i \in 1..n |-> Len(rev[i].variant)])
  IN  [k \in 1..n |-> rev[order[k]]]

\* C6: the normalized string is the same under every rule order that is longest-first,
\* whatever the order among rules of equal length (here: the table iterated backwards).
C6_OrderIndependent ==
  (pc = "normalize" /\ idx > Len(sortedReplacements))
    => cleaned = NormalizeWith(reversedReplacements, text)

\* C7: every input yields a result (the table lookups and int() are applied only where
\* they are defined); its event is UNKNOWN or a kind of the rule table, and
\* its attribution is the table's for that kind (none for UNKNOWN); the empty input gives
\* UNKNOWN, no player number, needsReview true.
C7_AlwaysAResult ==
  /\ (pc = "normalize" /\ idx > Len(sortedReplacements)) =>
       /\ IsStandalone => cleaned \in TableKeys
       /\ \A i \in 1..Len(cleaned) : Range(NumberAt(cleaned, i)) \subseteq DigitChars
  /\ (pc = "assemble" /\ ~IsUnknown) => matched[1] \in TableKeys
  /\ Returned =>
       /\ result.event \in Kinds \cup {"UNKNOWN"}
       /\ result.pointAwardedTo = (IF result.event = "UNKNOWN" THEN None ELSE AwardOf(result.event))
       /\ text = <<>> =>
            /\ result.event = "UNKNOWN"
            /\ result.playerNumber = None
            /\ result.needsReview = TRUE

\* the empty input has been answered
C7_Witness == Returned /\ text = <<>> /\ result.event = "UNKNOWN"

\* C8: the result's rawText is the original input, not the normalized text, and its
\* setNumber is the caller's.
C8_RawTextAndSetNumber ==
  Returned => result.rawText = text /\ result.setNumber = setNumber

\* a matched event whose input had upper-case letters and surrounding whitespace
C8_Witness ==
  /\ Returned
  /\ text # lower(text)
  /\ text # strip(text)
  /\ result.needsReview = FALSE
  /\ result.rawText # cleaned
  /\ result.setNumber = MaxSetNumber

\* C9: the event returned without review is that of a longest event phrase occurring as a
\* substring of the normalized text: "block assist" is never BLOCK or ASSIST,
\* "serve error" is never SERVE, and "7 digging" is DIG.
C9_LongestSubstring ==
  (Returned /\ result.needsReview = FALSE /\ cleaned \notin StandaloneCommands) =>
    /\ \E p \in EventPhrases :
         /\ Contains(cleaned, p)
         /\ result.event = Lookup(p).event
         /\ \A q \in EventPhrases : Contains(cleaned, q) => Len(q) <= Len(p)
    /\ Contains(cleaned, Str("block assist")) => result.event \notin {"BLOCK", "ASSIST"}
    /\ Contains(cleaned, Str("serve error")) => result.event # "SERVE"
    /\ text = Str("7 digging") => result.event = "DIG"

\* a phrase inside a longer word has matched
C9_Witness == Returned /\ text = Str("7 digging") /\ result.event = "DIG"

\* C10: the player number of a non-standalone result is the value of the first whole-word
\* token of one or two digits of the normalized text, absent when there is none, and
\* within 0..99.
C10_FirstNumberToken ==
  (Returned /\ cleaned \notin StandaloneCommands) =>
    /\ result.playerNumber = FirstNumber(cleaned)
    /\ result.playerNumber # None => result.playerNumber[1] \in 0..99

\* a later number token and a three-digit run were passed over
C10_Witness ==
  /\ Returned
  /\ Cardinality(NumberTokenStarts(cleaned)) >= 2
  /\ result.playerNumber = Some(9)
  /\ SubSeq(cleaned, 1, 3) = Str("123")

====
